---- MODULE Spec2Model ----
(***************************************************************************)
(* Request handlers of the RuneScape AHK Game Hub server                   *)
(* (server/routes.ts and its second revision, src/unnamed/part_000).       *)
(*                                                                         *)
(* Every handler is one action; its inputs (requester identity, route      *)
(* parameter, body) are drawn from small sets.  `req` holds the request    *)
(* the last step handled and `res` the response it was given.              *)
(* The registration handler is split at its awaits, because its            *)
(* lookup-then-create sequence can interleave with another request's.      *)
(***************************************************************************)
EXTENDS Integers, Sequences, FiniteSets, TLC

\* ------------------------------------------------------------ bounds
MaxScripts == 1    \* scripts ever created (ids are never reused)
MaxExec    == 1    \* cap of the execution counter
MaxUsers   == 2    \* users ever stored
MaxRegs    == 2    \* registration requests in flight at once
MaxNews    == 2    \* news articles ever created
MaxInFlight == 2   \* requests of one handler in flight at once
MaxAccounts == 3   \* game accounts in the list at once
MaxClock   == 2    \* milliseconds that pass

\* ------------------------------------------------------------ values
NoUser == "none"                       \* undefined userId / no session user
Anon   == [id |-> NoUser, username |-> NoUser]
SessionUsers == { [id |-> "u1", username |-> "ann"],
                  [id |-> "u2", username |-> "bob"] }
Requesters == {Anon} \cup SessionUsers
UserIds    == {u.id : u \in SessionUsers}

NoBody == [f \in {} |-> TRUE]          \* a request without (or with an empty) body
NoId   == 0                            \* a request without an :id parameter
NoCode == << >>                        \* the empty string, as a token sequence

\* The ids a request may name: those of the Scripts ever stored and one more
ScriptIds == 1..(MaxScripts + 1)

VARIABLES
  scripts,       \* storage: id -> Script document
  nextScriptId,  \* storage: the id the next created Script gets
  news,          \* storage: id -> NewsArticle document
  nextNewsId,    \* storage: the id the next created article gets
  users,         \* storage: sequence of User documents (id = position)
  regs,          \* registration requests in flight: slot -> request state
  openai,        \* whether the text-generation client was configured at load
  execs,         \* execute requests of the second revision in flight: slot -> state
  faults,        \* whether storage and service calls may raise in this deployment
  deletes,       \* DELETE /api/scripts/:id requests in flight: slot -> state
  gameAccounts,  \* second revision: the in-process list of game accounts
  clock,         \* second revision: what Date.now() returns
  accounts,      \* launcher page: the account list the page has fetched
  accountsLoading, \* launcher page: the first fetch of the list is under way
  isLaunching,   \* launcher page: state isLaunching
  gameStatus,    \* launcher page: state gameStatus
  launches,      \* launcher page: launch requests in flight
  timers,        \* launcher page: setTimeout callbacks not yet run
  req,           \* the request handled by the last step
  res,           \* the response given to it
  fav,           \* observer: the run of favorite requests a Script is in
  observe        \* whether the specification runs the observer

GameVars == <<gameAccounts, clock>>
PageVars == <<accounts, accountsLoading, isLaunching, gameStatus, launches, timers>>

vars == <<scripts, nextScriptId, news, nextNewsId, users, regs, openai, execs,
          faults, deletes, GameVars, PageVars, req, res, fav, observe>>

\* ------------------------------------------------------------ helpers
Range(f) == {f[x] : x \in DOMAIN f}

\* {...a, ...b}: object spread, the right operand wins
Spread(a, b) ==
  [f \in DOMAIN a \cup DOMAIN b |-> IF f \in DOMAIN b THEN b[f] ELSE a[f]]

\* s.includes(sub) on token sequences
Contains(s, sub) ==
  \E i \in 0..(Len(s) - Len(sub)) :
     \A j \in 1..Len(sub) : s[i + j] = sub[j]

Request(op, user, id, body) == [op |-> op, user |-> user, id |-> id, body |-> body]
\* A response: its status, the ids of the Scripts or articles in its body, the
\* generatedCode in its body; `raised` tells that the handler's catch block wrote
\* it after a storage or service call raised, `called` that the handler called
\* the text-generation service.
Response(status, list, code) ==
  [status |-> status, list |-> list, code |-> code, raised |-> FALSE, called |-> FALSE]
Status(status) == Response(status, {}, NoCode)
\* catch (error) { res.status(status).json({error}) }
Caught(status) == [Status(status) EXCEPT !.raised = TRUE]

\* The outcomes of a storage or service call: it returns, or (where calls may
\* fail) it raises
Raises == IF faults THEN BOOLEAN ELSE {FALSE}

\* Middleware-level check used inline by the handlers: req.isAuthenticated() && req.user
isAuthenticated(user) == user.id # NoUser

\* ------------------------------------------------------------ storage (Scripts)
getScript(id) == scripts[id]
hasScript(id) == id \in DOMAIN scripts

\* Defaults the storage gives a new Script document
ScriptDefaults ==
  [userId |-> NoUser, author |-> "Unknown", isPublic |-> TRUE,
   isFavorite |-> FALSE, executionCount |-> 0]

createScript(data) ==
  [id \in DOMAIN scripts \cup {nextScriptId} |->
     IF id = nextScriptId THEN Spread(ScriptDefaults, data) ELSE scripts[id]]

\* returns nothing, and changes nothing, when the id is not stored
updateScript(id, updates) ==
  IF hasScript(id) THEN [scripts EXCEPT ![id] = Spread(scripts[id], updates)]
  ELSE scripts

deleteScript(id) ==
  [i \in DOMAIN scripts \ {id} |-> scripts[i]]

toggleScriptFavorite(id) ==
  [scripts EXCEPT ![id].isFavorite = ~scripts[id].isFavorite]

incrementScriptExecution(id) ==
  IF hasScript(id)
  THEN [scripts EXCEPT ![id].executionCount = scripts[id].executionCount + 1]
  ELSE scripts

getAllScripts == DOMAIN scripts
getScriptsByCategory(category) ==
  {id \in DOMAIN scripts : scripts[id].category = category}
searchScripts(search) ==
  {id \in DOMAIN scripts :
     search \in Range(scripts[id].code) \/ search = scripts[id].author}

\* insertScriptSchema.parse(body): throws unless the required fields are there
ScriptRequired == {"code", "category"}
insertScriptSchemaValid(body) == ScriptRequired \subseteq DOMAIN body
insertScriptSchemaParse(body) == body

\* ============================================================ observers
FavoriteOps ==
  {"POST /api/scripts/:id/favorite", "POST /api/scripts/:id/favorite (part_000)"}
NoFav == [id |-> NoId, count |-> 0, base |-> NoBody]


\* Follows the favorite requests answered 200: `base` is the Script as it was
\* before the first of a run, `count` the length of the run (1 or 2); any other
\* request to that Script ends the run.
TrackFavorite ==
  IF req'.op \in FavoriteOps /\ res'.status = 200
  THEN IF fav.id = req'.id /\ fav.count = 1
       THEN fav' = [fav EXCEPT !.count = 2]
       ELSE fav' = [id |-> req'.id, count |-> 1, base |-> scripts[req'.id]]
  ELSE IF req'.id = fav.id THEN fav' = NoFav
  ELSE fav' = fav

Observe ==
  /\ IF observe THEN TrackFavorite ELSE UNCHANGED fav
  /\ UNCHANGED observe

\* ------------------------------------------------------------ request inputs
PostBodies ==
  { [code |-> <<"c1">>, category |-> "utility", isPublic |-> FALSE],
    [code |-> <<"c1">>, category |-> "utility", userId |-> "u2", author |-> "mallory"],
    [category |-> "utility"] }
PatchBodies ==
  { [isPublic |-> TRUE], [userId |-> "u2"] }
Queries ==
  { NoBody, [search |-> "c1"], [category |-> "utility"], [category |-> "all"] }

\* ------------------------------------------------------------ GET /api/scripts
\* mutant: the filter keeping the public Scripts
publicResultsPublicOnly(user, results) ==
  IF isAuthenticated(user) THEN results
  ELSE {id \in results : scripts[id].isPublic}

\* req.isAuthenticated() ? results : results.filter(s => !s.isPublic)
publicResults(user, results) ==
  IF isAuthenticated(user) THEN results
  ELSE {id \in results : ~scripts[id].isPublic}

\* the storage query the handler's branch runs
scriptsQuery(query) ==
  IF "search" \in DOMAIN query THEN searchScripts(query.search)
  ELSE IF "category" \in DOMAIN query /\ query.category # "all"
       THEN getScriptsByCategory(query.category)
       ELSE getAllScripts

GetScripts ==
  \E user \in Requesters, query \in Queries, raise \in Raises :
    /\ req' = Request("GET /api/scripts", user, NoId, query)
    /\ res' = IF raise THEN Caught(500)
              ELSE Response(200, publicResults(user, scriptsQuery(query)), NoCode)
    /\ UNCHANGED <<scripts, nextScriptId, news, nextNewsId, users, regs, openai, execs, faults, deletes, GameVars, PageVars>>
    /\ Observe

\* ------------------------------------------------------------ GET /api/scripts/:id
\* mutant: the handler without its `if (!script)` branch
GetScriptByIdUnchecked ==
  \E user \in Requesters, id \in ScriptIds, raise \in Raises :
    /\ req' = Request("GET /api/scripts/:id", user, id, NoBody)
    /\ res' = IF raise THEN Caught(500) ELSE Response(200, {id}, NoCode)
    /\ UNCHANGED <<scripts, nextScriptId, news, nextNewsId, users, regs, openai, execs, faults, deletes, GameVars, PageVars>>
    /\ Observe

GetScriptById ==
  \E user \in Requesters, id \in ScriptIds, raise \in Raises :
    /\ req' = Request("GET /api/scripts/:id", user, id, NoBody)
    /\ res' = IF raise THEN Caught(500)
              ELSE IF ~hasScript(id) THEN Status(404)
              ELSE Response(200, {id}, NoCode)
    /\ UNCHANGED <<scripts, nextScriptId, news, nextNewsId, users, regs, openai, execs, faults, deletes, GameVars, PageVars>>
    /\ Observe

\* ------------------------------------------------------------ POST /api/scripts
\* { ...data, userId: req.user.id, author: req.user.username }
\* mutant: the spread written last, so the body's fields win
scriptDataBodyWins(user, data) ==
  Spread([userId |-> user.id, author |-> user.username], data)

scriptData(user, data) ==
  Spread(data, [userId |-> user.id, author |-> user.username])

\* mutant: the handler without its authentication guard
PostScriptsUnguarded ==
  \E user \in Requesters, body \in PostBodies, raise \in Raises :
    /\ req' = Request("POST /api/scripts", user, NoId, body)
    /\ IF ~insertScriptSchemaValid(body)
       THEN res' = Status(400) /\ UNCHANGED <<scripts, nextScriptId>>
       ELSE IF raise
       THEN res' = Caught(400) /\ UNCHANGED <<scripts, nextScriptId>>
       ELSE /\ nextScriptId <= MaxScripts
            /\ scripts' = createScript(scriptData(user, insertScriptSchemaParse(body)))
            /\ nextScriptId' = nextScriptId + 1
            /\ res' = Response(201, {nextScriptId}, NoCode)
    /\ UNCHANGED <<news, nextNewsId, users, regs, openai, execs, faults, deletes, GameVars, PageVars>>
    /\ Observe

\* The catch block answers 400 whatever was thrown: the schema's error or the
\* storage's.
PostScripts ==
  \E user \in Requesters, body \in PostBodies, raise \in Raises :
    /\ req' = Request("POST /api/scripts", user, NoId, body)
    /\ IF ~isAuthenticated(user)
       THEN res' = Status(401) /\ UNCHANGED <<scripts, nextScriptId>>
       ELSE IF ~insertScriptSchemaValid(body)
       THEN res' = Status(400) /\ UNCHANGED <<scripts, nextScriptId>>
       ELSE IF raise
       THEN res' = Caught(400) /\ UNCHANGED <<scripts, nextScriptId>>
       ELSE /\ nextScriptId <= MaxScripts
            /\ scripts' = createScript(scriptData(user, insertScriptSchemaParse(body)))
            /\ nextScriptId' = nextScriptId + 1
            /\ res' = Response(201, {nextScriptId}, NoCode)
    /\ UNCHANGED <<news, nextNewsId, users, regs, openai, execs, faults, deletes, GameVars, PageVars>>
    /\ Observe

\* ------------------------------------------------------------ PATCH /api/scripts/:id
\* existingScript.userId !== req.user.id
\* mutant: a Script without an owner counted as the requester's own
notOwnerOfOwned(id, user) ==
  getScript(id).userId # NoUser /\ getScript(id).userId # user.id

notOwner(id, user) == getScript(id).userId # user.id

\* mutant: the existence check made before the authentication check
PatchScriptExistenceFirst ==
  \E user \in Requesters, id \in ScriptIds, body \in PatchBodies, raise \in Raises :
    /\ req' = Request("PATCH /api/scripts/:id", user, id, body)
    /\ IF raise
       THEN res' = Caught(500) /\ UNCHANGED scripts
       ELSE IF ~hasScript(id)
       THEN res' = Status(404) /\ UNCHANGED scripts
       ELSE IF ~isAuthenticated(user)
       THEN res' = Status(401) /\ UNCHANGED scripts
       ELSE IF notOwner(id, user)
       THEN res' = Status(403) /\ UNCHANGED scripts
       ELSE /\ scripts' = updateScript(id, body)
            /\ res' = Response(200, {id}, NoCode)
    /\ UNCHANGED <<nextScriptId, news, nextNewsId, users, regs, openai, execs, faults, deletes, GameVars, PageVars>>
    /\ Observe

PatchScript ==
  \E user \in Requesters, id \in ScriptIds, body \in PatchBodies, raise \in Raises :
    /\ req' = Request("PATCH /api/scripts/:id", user, id, body)
    /\ IF ~isAuthenticated(user)
       THEN res' = Status(401) /\ UNCHANGED scripts
       ELSE IF raise
       THEN res' = Caught(500) /\ UNCHANGED scripts
       ELSE IF ~hasScript(id)
       THEN res' = Status(404) /\ UNCHANGED scripts
       ELSE IF notOwner(id, user)
       THEN res' = Status(403) /\ UNCHANGED scripts
       ELSE /\ scripts' = updateScript(id, body)
            /\ res' = Response(200, {id}, NoCode)
    /\ UNCHANGED <<nextScriptId, news, nextNewsId, users, regs, openai, execs, faults, deletes, GameVars, PageVars>>
    /\ Observe

\* ------------------------------------------------------------ DELETE /api/scripts/:id
\* mutant: 204 answered without the call of storage.deleteScript
DeleteScriptNotDeleting ==
  \E user \in Requesters, id \in ScriptIds, raise \in Raises :
    /\ req' = Request("DELETE /api/scripts/:id", user, id, NoBody)
    /\ IF ~isAuthenticated(user)
       THEN res' = Status(401)
       ELSE IF raise
       THEN res' = Caught(500)
       ELSE IF ~hasScript(id)
       THEN res' = Status(404)
       ELSE IF notOwner(id, user)
       THEN res' = Status(403)
       ELSE res' = Status(204)
    /\ UNCHANGED <<scripts, nextScriptId, news, nextNewsId, users, regs, openai, execs, faults, deletes, GameVars, PageVars>>
    /\ Observe

DeleteScript ==
  \E user \in Requesters, id \in ScriptIds, raise \in Raises :
    /\ req' = Request("DELETE /api/scripts/:id", user, id, NoBody)
    /\ IF ~isAuthenticated(user)
       THEN res' = Status(401) /\ UNCHANGED scripts
       ELSE IF raise
       THEN res' = Caught(500) /\ UNCHANGED scripts
       ELSE IF ~hasScript(id)
       THEN res' = Status(404) /\ UNCHANGED scripts
       ELSE IF notOwner(id, user)
       THEN res' = Status(403) /\ UNCHANGED scripts
       ELSE /\ scripts' = deleteScript(id)
            /\ res' = Status(204)
    /\ UNCHANGED <<nextScriptId, news, nextNewsId, users, regs, openai, execs, faults, deletes, GameVars, PageVars>>
    /\ Observe

\* ------------------------------------------------------------ POST /api/scripts/:id/execute
ExecuteScript ==
  \E user \in Requesters, id \in ScriptIds, raise \in Raises :
    /\ hasScript(id) => getScript(id).executionCount < MaxExec
    /\ req' = Request("POST /api/scripts/:id/execute", user, id, NoBody)
    /\ IF raise
       THEN res' = Caught(500) /\ UNCHANGED scripts
       ELSE /\ scripts' = incrementScriptExecution(id)
            /\ res' = Status(200)
    /\ UNCHANGED <<nextScriptId, news, nextNewsId, users, regs, openai, execs, faults, deletes, GameVars, PageVars>>
    /\ Observe

\* ------------------------------------------------------------ POST /api/scripts/:id/favorite
\* mutant: the ownership check the handler holds in a comment, put in force
FavoriteScriptOwnOnly ==
  \E user \in Requesters, id \in ScriptIds, raise \in Raises :
    /\ req' = Request("POST /api/scripts/:id/favorite", user, id, NoBody)
    /\ IF ~isAuthenticated(user)
       THEN res' = Status(401) /\ UNCHANGED scripts
       ELSE IF raise
       THEN res' = Caught(500) /\ UNCHANGED scripts
       ELSE IF ~hasScript(id)
       THEN res' = Status(404) /\ UNCHANGED scripts
       ELSE IF notOwner(id, user)
       THEN res' = Status(403) /\ UNCHANGED scripts
       ELSE /\ scripts' = toggleScriptFavorite(id)
            /\ res' = Status(200)
    /\ UNCHANGED <<nextScriptId, news, nextNewsId, users, regs, openai, execs, faults, deletes, GameVars, PageVars>>
    /\ Observe

FavoriteScript ==
  \E user \in Requesters, id \in ScriptIds, raise \in Raises :
    /\ req' = Request("POST /api/scripts/:id/favorite", user, id, NoBody)
    /\ IF ~isAuthenticated(user)
       THEN res' = Status(401) /\ UNCHANGED scripts
       ELSE IF raise
       THEN res' = Caught(500) /\ UNCHANGED scripts
       ELSE IF ~hasScript(id)
       THEN res' = Status(404) /\ UNCHANGED scripts
       ELSE /\ scripts' = toggleScriptFavorite(id)
            /\ res' = Status(200)
    /\ UNCHANGED <<nextScriptId, news, nextNewsId, users, regs, openai, execs, faults, deletes, GameVars, PageVars>>
    /\ Observe

\* ------------------------------------------------------------ POST /api/scripts/generate
NoTemplate == "undefined"              \* body.template absent
GenerateBodies ==
  { NoBody, [prompt |-> ""],
    [prompt |-> "fish"],
    [prompt |-> "fish", template |-> "fishing"],
    [prompt |-> "fish", template |-> "combat"],
    [prompt |-> "fish", template |-> "constructor"] }

\* What the text-generation service may answer: a text, an empty choice, or a failure
Completions ==
  { [kind |-> "string", text |-> <<";", "Custom", "Bot", "v2.0">>],
    [kind |-> "string", text |-> NoCode],
    [kind |-> "error",  text |-> NoCode] }

\* template || 'custom'
templateLine(template) == IF template = NoTemplate THEN "custom" ELSE template

\* The leading comment lines of each canned template, token by token
templateHeader(title, prompt, template) ==
  <<";">> \o title \o <<"v1.0", ";", "Generated", "from", "prompt:", prompt,
                          ";", "Template:", templateLine(template), "#NoEnv">>

fishingTemplate(prompt, template) ==
  templateHeader(<<"AI", "Generated", "Fishing", "Script">>, prompt, template)
combatTemplate(prompt, template) ==
  templateHeader(<<"AI", "Generated", "Combat", "Script">>, prompt, template)
defaultTemplate(prompt, template) ==
  templateHeader(<<"AI", "Generated", "Script">>, prompt, template)

\* Members every object literal inherits from Object.prototype
ObjectPrototypeKeys == {"constructor", "toString", "valueOf", "hasOwnProperty", "__proto__"}

\* templates[template]: property lookup on the object literal
templatesLookup(prompt, template) ==
  IF template = "fishing" THEN [kind |-> "string", text |-> fishingTemplate(prompt, template)]
  ELSE IF template = "combat" THEN [kind |-> "string", text |-> combatTemplate(prompt, template)]
  ELSE IF template = "default" THEN [kind |-> "string", text |-> defaultTemplate(prompt, template)]
  ELSE IF template \in ObjectPrototypeKeys THEN [kind |-> "function", text |-> NoCode]
  ELSE [kind |-> "undefined", text |-> NoCode]

\* templates[template] || templates.default
mockGenerate(prompt, template) ==
  IF templatesLookup(prompt, template).kind # "undefined"
  THEN templatesLookup(prompt, template)
  ELSE [kind |-> "string", text |-> defaultTemplate(prompt, template)]

\* category: template || "utility"
generatedCategory(template) == IF template = NoTemplate THEN "utility" ELSE template

\* mutant: the category without its fallback
generatedScriptNoFallback(template, generatedCode) ==
  [category |-> template, code |-> generatedCode, author |-> "AI Generator"]

\* storage.createScript({name, description, category, code, author: "AI Generator"})
generatedScript(template, generatedCode) ==
  [category |-> generatedCategory(template), code |-> generatedCode,
   author |-> "AI Generator"]

\* The response of a request that got past the prompt check: with a configured
\* client the handler has called the service by then
afterGeneration(response) == [response EXCEPT !.called = openai]

\* mutant: the handler without its `if (!prompt)` branch
GenerateScriptUnchecked ==
  \E user \in Requesters, body \in GenerateBodies, raise \in Raises :
    LET prompt   == IF "prompt" \in DOMAIN body THEN body.prompt ELSE ""
        template == IF "template" \in DOMAIN body THEN body.template ELSE NoTemplate
    IN
    /\ req' = Request("POST /api/scripts/generate", user, NoId, body)
    /\ \E generated \in (IF openai THEN Completions
                         ELSE {mockGenerate(prompt, template)}) :
         IF generated.kind = "error"
         THEN res' = afterGeneration(Caught(500)) /\ UNCHANGED <<scripts, nextScriptId>>
         ELSE IF generated.kind # "string"
         THEN res' = afterGeneration(Status(500)) /\ UNCHANGED <<scripts, nextScriptId>>
         ELSE IF raise
         THEN res' = afterGeneration(Caught(500)) /\ UNCHANGED <<scripts, nextScriptId>>
         ELSE /\ nextScriptId <= MaxScripts
              /\ scripts' = createScript(generatedScript(template, generated.text))
              /\ nextScriptId' = nextScriptId + 1
              /\ res' = afterGeneration(Response(200, {nextScriptId}, generated.text))
    /\ UNCHANGED <<news, nextNewsId, users, regs, openai, execs, faults, deletes, GameVars, PageVars>>
    /\ Observe

\* The service's failure and the storage's are caught and answered 500; so is
\* the TypeError of generatedCode.match when the template lookup gave no string.
GenerateScript ==
  \E user \in Requesters, body \in GenerateBodies, raise \in Raises :
    LET prompt   == IF "prompt" \in DOMAIN body THEN body.prompt ELSE ""
        template == IF "template" \in DOMAIN body THEN body.template ELSE NoTemplate
    IN
    /\ req' = Request("POST /api/scripts/generate", user, NoId, body)
    /\ IF prompt = ""
       THEN res' = Status(400) /\ UNCHANGED <<scripts, nextScriptId>>
       ELSE \E generated \in (IF openai THEN Completions
                              ELSE {mockGenerate(prompt, template)}) :
              IF generated.kind = "error"
              THEN res' = afterGeneration(Caught(500)) /\ UNCHANGED <<scripts, nextScriptId>>
              ELSE IF generated.kind # "string"
              THEN res' = afterGeneration(Status(500)) /\ UNCHANGED <<scripts, nextScriptId>>
              ELSE IF raise
              THEN res' = afterGeneration(Caught(500)) /\ UNCHANGED <<scripts, nextScriptId>>
              ELSE /\ nextScriptId <= MaxScripts
                   /\ scripts' = createScript(generatedScript(template, generated.text))
                   /\ nextScriptId' = nextScriptId + 1
                   /\ res' = afterGeneration(Response(200, {nextScriptId}, generated.text))
    /\ UNCHANGED <<news, nextNewsId, users, regs, openai, execs, faults, deletes, GameVars, PageVars>>
    /\ Observe

\* ------------------------------------------------------------ GET /api/system-stats/history
\* The handler makes no storage call; when its platform call raises, the catch
\* block answers with an empty list and the default status.
GetSystemStatsHistory ==
  \E user \in Requesters, raise \in Raises :
    /\ req' = Request("GET /api/system-stats/history", user, NoId, NoBody)
    /\ res' = IF raise THEN [Status(200) EXCEPT !.raised = TRUE] ELSE Status(200)
    /\ UNCHANGED <<scripts, nextScriptId, news, nextNewsId, users, regs, openai, execs, faults, deletes, GameVars, PageVars>>
    /\ Observe

\* ------------------------------------------------------------ storage (News)
hasNewsArticle(id) == id \in DOMAIN news
getNewsArticle(id) == news[id]
createNewsArticle(data) ==
  [id \in DOMAIN news \cup {nextNewsId} |->
     IF id = nextNewsId THEN data ELSE news[id]]
\* both report an absent article by returning nothing / false, and change nothing then
updateNewsArticle(id, updates) ==
  IF hasNewsArticle(id) THEN [news EXCEPT ![id] = Spread(news[id], updates)] ELSE news
deleteNewsArticle(id) ==
  [i \in DOMAIN news \ {id} |-> news[i]]

NewsIds == 1..MaxNews
NewsRequired == {"title", "content"}
insertNewsArticleSchemaValid(body) == NewsRequired \subseteq DOMAIN body
NewsBodies ==
  { [title |-> "t1", content |-> "x"],
    [title |-> "t2", content |-> "x", isHot |-> TRUE],
    [title |-> "t3"] }
NewsPatchBodies ==
  { [isHot |-> TRUE], [title |-> "t9"] }

\* ------------------------------------------------------------ GET /api/news/:id
GetNewsById ==
  \E user \in Requesters, id \in NewsIds, raise \in Raises :
    /\ req' = Request("GET /api/news/:id", user, id, NoBody)
    /\ res' = IF raise THEN Caught(500)
              ELSE IF ~hasNewsArticle(id) THEN Status(404)
              ELSE Response(200, {id}, NoCode)
    /\ UNCHANGED <<scripts, nextScriptId, news, nextNewsId, users, regs, openai, execs, faults, deletes, GameVars, PageVars>>
    /\ Observe

\* ------------------------------------------------------------ POST /api/news
PostNews ==
  \E user \in Requesters, body \in NewsBodies, raise \in Raises :
    /\ req' = Request("POST /api/news", user, NoId, body)
    /\ IF ~insertNewsArticleSchemaValid(body)
       THEN res' = Status(400) /\ UNCHANGED <<news, nextNewsId>>
       ELSE IF raise
       THEN res' = Caught(400) /\ UNCHANGED <<news, nextNewsId>>
       ELSE /\ nextNewsId <= MaxNews
            /\ news' = createNewsArticle(body)
            /\ nextNewsId' = nextNewsId + 1
            /\ res' = Response(201, {nextNewsId}, NoCode)
    /\ UNCHANGED <<scripts, nextScriptId, users, regs, openai, execs, faults, deletes, GameVars, PageVars>>
    /\ Observe

\* ------------------------------------------------------------ PATCH /api/news/:id
PatchNews ==
  \E user \in Requesters, id \in NewsIds, body \in NewsPatchBodies, raise \in Raises :
    /\ req' = Request("PATCH /api/news/:id", user, id, body)
    /\ IF raise
       THEN res' = Caught(500) /\ UNCHANGED news
       ELSE /\ news' = updateNewsArticle(id, body)
            /\ res' = IF ~hasNewsArticle(id) THEN Status(404)
                      ELSE Response(200, {id}, NoCode)
    /\ UNCHANGED <<scripts, nextScriptId, nextNewsId, users, regs, openai, execs, faults, deletes, GameVars, PageVars>>
    /\ Observe

\* ------------------------------------------------------------ DELETE /api/news/:id
\* mutant: the handler behind the guards of the Script routes
DeleteNewsGuarded ==
  \E user \in Requesters, id \in NewsIds, raise \in Raises :
    /\ req' = Request("DELETE /api/news/:id", user, id, NoBody)
    /\ IF ~isAuthenticated(user)
       THEN res' = Status(401) /\ UNCHANGED news
       ELSE IF raise
       THEN res' = Caught(500) /\ UNCHANGED news
       ELSE /\ news' = deleteNewsArticle(id)
            /\ res' = IF ~hasNewsArticle(id) THEN Status(404) ELSE Status(204)
    /\ UNCHANGED <<scripts, nextScriptId, nextNewsId, users, regs, openai, execs, faults, deletes, GameVars, PageVars>>
    /\ Observe

DeleteNews ==
  \E user \in Requesters, id \in NewsIds, raise \in Raises :
    /\ req' = Request("DELETE /api/news/:id", user, id, NoBody)
    /\ IF raise
       THEN res' = Caught(500) /\ UNCHANGED news
       ELSE /\ news' = deleteNewsArticle(id)
            /\ res' = IF ~hasNewsArticle(id) THEN Status(404) ELSE Status(204)
    /\ UNCHANGED <<scripts, nextScriptId, nextNewsId, users, regs, openai, execs, faults, deletes, GameVars, PageVars>>
    /\ Observe

\* ============================================================ second revision
\* src/unnamed/part_000: the same server with fewer routes and other guards.

\* ------------------------------------------------------------ POST /api/scripts/:id/execute
\* The handler reads the Script, then writes the counter it computed from what
\* it read: one step per storage call, as another request's calls may run between.
ExecSlots == 1..MaxInFlight
IdleExec == [pc |-> "idle", user |-> Anon, id |-> NoId, script |-> NoBody]

\* { lastExecutedAt: new Date().toISOString(), executionCount: (script.executionCount || 0) + 1 }
executeUpdate(script) ==
  [lastExecutedAt |-> "now", executionCount |-> script.executionCount + 1]

executeResponse(slot, response) ==
  /\ req' = Request("POST /api/scripts/:id/execute (part_000)",
                    execs[slot].user, execs[slot].id, NoBody)
  /\ res' = response
  /\ execs' = [execs EXCEPT ![slot] = IdleExec]

\* const script = await storage.getScript(req.params.id)
ExecuteScriptVariantGetScript ==
  \E slot \in ExecSlots, user \in Requesters, id \in ScriptIds, raise \in Raises :
    /\ execs[slot].pc = "idle"
    /\ hasScript(id) => getScript(id).executionCount < MaxExec
    /\ IF raise \/ ~hasScript(id)
       THEN /\ req' = Request("POST /api/scripts/:id/execute (part_000)", user, id, NoBody)
            /\ res' = IF raise THEN Caught(500) ELSE Status(404)
            /\ UNCHANGED execs
       ELSE /\ execs' = [execs EXCEPT ![slot] =
                           [pc |-> "updateScript", user |-> user, id |-> id,
                            script |-> getScript(id)]]
            /\ UNCHANGED <<req, res>>
    /\ UNCHANGED <<scripts, nextScriptId, news, nextNewsId, users, regs, openai, faults, deletes, GameVars, PageVars>>
    /\ Observe

\* await storage.updateScript(req.params.id, {...}); res.json({ success: true, ... })
ExecuteScriptVariantUpdateScript ==
  \E slot \in ExecSlots, raise \in Raises :
    /\ execs[slot].pc = "updateScript"
    /\ IF raise
       THEN executeResponse(slot, Caught(500)) /\ UNCHANGED scripts
       ELSE /\ scripts' = updateScript(execs[slot].id, executeUpdate(execs[slot].script))
            /\ executeResponse(slot, Status(200))
    /\ UNCHANGED <<nextScriptId, news, nextNewsId, users, regs, openai, faults, deletes, GameVars, PageVars>>
    /\ Observe

\* ------------------------------------------------------------ POST /api/scripts/:id/favorite
\* mutant: the flag set instead of negated
favoriteUpdateSet(script) == [isFavorite |-> TRUE]

\* { isFavorite: !script.isFavorite }
favoriteUpdate(script) == [isFavorite |-> ~script.isFavorite]

FavoriteScriptVariant ==
  \E user \in Requesters, id \in ScriptIds, raise \in Raises :
    /\ req' = Request("POST /api/scripts/:id/favorite (part_000)", user, id, NoBody)
    /\ IF raise
       THEN res' = Caught(500) /\ UNCHANGED scripts
       ELSE IF ~hasScript(id)
       THEN res' = Status(404) /\ UNCHANGED scripts
       ELSE /\ scripts' = updateScript(id, favoriteUpdate(getScript(id)))
            /\ res' = Status(200)
    /\ UNCHANGED <<nextScriptId, news, nextNewsId, users, regs, openai, execs, faults, deletes, GameVars, PageVars>>
    /\ Observe

\* ------------------------------------------------------------ DELETE /api/scripts/:id
DeleteScriptVariant ==
  \E user \in Requesters, id \in ScriptIds, raise \in Raises :
    /\ req' = Request("DELETE /api/scripts/:id (part_000)", user, id, NoBody)
    /\ IF raise
       THEN res' = Caught(500) /\ UNCHANGED scripts
       ELSE IF ~hasScript(id)
       THEN res' = Status(404) /\ UNCHANGED scripts
       ELSE /\ scripts' = deleteScript(id)
            /\ res' = Status(204)
    /\ UNCHANGED <<nextScriptId, news, nextNewsId, users, regs, openai, execs, faults, deletes, GameVars, PageVars>>
    /\ Observe

\* ------------------------------------------------------------ GET /api/news/:id
GetNewsByIdVariant ==
  \E user \in Requesters, id \in NewsIds, raise \in Raises :
    /\ req' = Request("GET /api/news/:id (part_000)", user, id, NoBody)
    /\ res' = IF raise THEN Caught(500)
              ELSE IF ~hasNewsArticle(id) THEN Status(404)
              ELSE Response(200, {id}, NoCode)
    /\ UNCHANGED <<scripts, nextScriptId, news, nextNewsId, users, regs, openai, execs, faults, deletes, GameVars, PageVars>>
    /\ Observe

\* ============================================================ registration
\* POST /api/auth/register, one step per storage call (each call is atomic, the
\* sequence of calls of one request is not).

\* ------------------------------------------------------------ storage (Users)
getUserByEmail(email) == {i \in DOMAIN users : users[i].email = email}
getUserByUsername(username) == {i \in DOMAIN users : users[i].username = username}
createUser(data) == Append(users, [email |-> data.email, username |-> data.username])

UserRequired == {"email", "username", "password"}
insertUserSchemaValid(body) == UserRequired \subseteq DOMAIN body
RegisterBodies ==
  { [email |-> "a@x", username |-> "ann", password |-> "pw"],
    [email |-> "a@x", username |-> "bob", password |-> "pw"],
    [email |-> "b@x", username |-> "ann", password |-> "pw"],
    [email |-> "c@x", username |-> "cat"] }

Slots == 1..MaxRegs
IdleReg == [pc |-> "idle", body |-> NoBody, dup |-> FALSE]

\* observer: the request's email or username is that of a stored user on arrival
alreadyUsed(body) ==
  getUserByEmail(body.email) # {} \/ getUserByUsername(body.username) # {}

registerResponse(slot, response) ==
  /\ req' = Request("POST /api/auth/register", Anon, NoId, regs[slot].body)
  /\ res' = response
  /\ regs' = [regs EXCEPT ![slot] = IdleReg]

\* insertUserSchema.parse(req.body)
RegisterParse ==
  \E slot \in Slots, body \in RegisterBodies :
    /\ regs[slot].pc = "idle"
    /\ IF ~insertUserSchemaValid(body)
       THEN /\ req' = Request("POST /api/auth/register", Anon, NoId, body)
            /\ res' = Status(400)
            /\ UNCHANGED regs
       ELSE /\ regs' = [regs EXCEPT ![slot] =
                          [pc |-> "getUserByEmail", body |-> body, dup |-> alreadyUsed(body)]]
            /\ UNCHANGED <<req, res>>
    /\ UNCHANGED <<scripts, nextScriptId, news, nextNewsId, users, openai, execs, faults, deletes, GameVars, PageVars>>
    /\ Observe

\* await storage.getUserByEmail(validatedData.email)
RegisterGetUserByEmail ==
  \E slot \in Slots, raise \in Raises :
    /\ regs[slot].pc = "getUserByEmail"
    /\ IF raise
       THEN registerResponse(slot, Caught(400))
       ELSE IF getUserByEmail(regs[slot].body.email) # {}
       THEN registerResponse(slot, Status(400))
       ELSE /\ regs' = [regs EXCEPT ![slot].pc = "getUserByUsername"]
            /\ UNCHANGED <<req, res>>
    /\ UNCHANGED <<scripts, nextScriptId, news, nextNewsId, users, openai, execs, faults, deletes, GameVars, PageVars>>
    /\ Observe

\* mutant: the username lookup's result ignored
RegisterGetUserByUsernameIgnored ==
  \E slot \in Slots, raise \in Raises :
    /\ regs[slot].pc = "getUserByUsername"
    /\ IF raise
       THEN registerResponse(slot, Caught(400))
       ELSE /\ regs' = [regs EXCEPT ![slot].pc = "createUser"]
            /\ UNCHANGED <<req, res>>
    /\ UNCHANGED <<scripts, nextScriptId, news, nextNewsId, users, openai, execs, faults, deletes, GameVars, PageVars>>
    /\ Observe

\* await storage.getUserByUsername(validatedData.username)
RegisterGetUserByUsername ==
  \E slot \in Slots, raise \in Raises :
    /\ regs[slot].pc = "getUserByUsername"
    /\ IF raise
       THEN registerResponse(slot, Caught(400))
       ELSE IF getUserByUsername(regs[slot].body.username) # {}
       THEN registerResponse(slot, Status(400))
       ELSE /\ regs' = [regs EXCEPT ![slot].pc = "createUser"]
            /\ UNCHANGED <<req, res>>
    /\ UNCHANGED <<scripts, nextScriptId, news, nextNewsId, users, openai, execs, faults, deletes, GameVars, PageVars>>
    /\ Observe

\* await storage.createUser(validatedData); req.login(user, callback): the
\* callback answers 500 when the login failed, 201 otherwise
RegisterCreateUser ==
  \E slot \in Slots, raise \in Raises, loginOk \in BOOLEAN :
    /\ regs[slot].pc = "createUser"
    /\ Len(users) < MaxUsers
    /\ IF raise
       THEN registerResponse(slot, Caught(400)) /\ UNCHANGED users
       ELSE /\ users' = createUser(regs[slot].body)
            /\ registerResponse(slot, IF loginOk THEN Status(201) ELSE Status(500))
    /\ UNCHANGED <<scripts, nextScriptId, news, nextNewsId, openai, execs, faults, deletes, GameVars, PageVars>>
    /\ Observe

\* ============================================================ POST /api/init-data
\* The sample Scripts and articles of the handler, none with a userId
initDataScripts ==
  << [category |-> "woodcutting", code |-> <<";", "Woodcutting", "script...">>,
      author |-> "WoodMaster"],
     [category |-> "cooking", code |-> <<";", "Cooking", "script...">>,
      author |-> "ChefBot"],
     [category |-> "agility", code |-> <<";", "Agility", "script...">>,
      author |-> "RunnerPro"],
     [category |-> "crafting", code |-> <<";", "Crafting", "script...">>,
      author |-> "CraftKing"] >>
initDataArticles ==
  << [title |-> "New Wilderness Boss: The Forgotten King", content |-> "x"],
     [title |-> "Double XP Weekend Announced", content |-> "x", isHot |-> TRUE] >>

\* for (const script of scripts) await storage.createScript(script), the first
\* `count` turns of the loop
createScripts(data, count) ==
  [id \in DOMAIN scripts \cup (nextScriptId..(nextScriptId + count - 1)) |->
     IF id >= nextScriptId THEN Spread(ScriptDefaults, data[id - nextScriptId + 1])
     ELSE scripts[id]]
createNewsArticles(data, count) ==
  [id \in DOMAIN news \cup (nextNewsId..(nextNewsId + count - 1)) |->
     IF id >= nextNewsId THEN data[id - nextNewsId + 1] ELSE news[id]]

\* Both loops run to their end and the handler answers 200, or a storage call
\* raises after `done` calls and the catch block answers 500.
PostInitData ==
  \E user \in Requesters, raise \in Raises,
     done \in 0..(Len(initDataScripts) + Len(initDataArticles) - 1) :
    LET calls    == IF raise THEN done ELSE Len(initDataScripts) + Len(initDataArticles)
        created  == IF calls < Len(initDataScripts) THEN calls ELSE Len(initDataScripts)
        articles == calls - created
    IN
    /\ nextScriptId <= MaxScripts
    /\ nextNewsId <= MaxNews
    /\ req' = Request("POST /api/init-data", user, NoId, NoBody)
    /\ scripts' = createScripts(initDataScripts, created)
    /\ nextScriptId' = nextScriptId + created
    /\ news' = createNewsArticles(initDataArticles, articles)
    /\ nextNewsId' = nextNewsId + articles
    /\ res' = IF raise THEN Caught(500) ELSE Status(200)
    /\ UNCHANGED <<users, regs, openai, execs, faults, deletes, GameVars, PageVars>>
    /\ Observe

\* ============================================================ DELETE /api/scripts/:id, step by step
\* The handler of server/routes.ts, one step per storage call, for requests
\* that run at the same time: it reads the Script, then deletes it, and does
\* not look at what the deletion returns.
DeleteSlots == 1..MaxInFlight
IdleDelete == [pc |-> "idle", user |-> Anon, id |-> NoId]

\* const existingScript = await storage.getScript(req.params.id), and the guards
DeleteScriptGetScript ==
  \E slot \in DeleteSlots, user \in Requesters, id \in ScriptIds, raise \in Raises :
    /\ deletes[slot].pc = "idle"
    /\ IF isAuthenticated(user) /\ ~raise /\ hasScript(id) /\ ~notOwner(id, user)
       THEN /\ deletes' = [deletes EXCEPT ![slot] =
                             [pc |-> "deleteScript", user |-> user, id |-> id]]
            /\ UNCHANGED <<req, res>>
       ELSE /\ req' = Request("DELETE /api/scripts/:id", user, id, NoBody)
            /\ res' = IF ~isAuthenticated(user) THEN Status(401)
                      ELSE IF raise THEN Caught(500)
                      ELSE IF ~hasScript(id) THEN Status(404)
                      ELSE Status(403)
            /\ UNCHANGED deletes
    /\ UNCHANGED <<scripts, nextScriptId, news, nextNewsId, users, regs, openai, execs,
                   faults, GameVars, PageVars>>
    /\ Observe

\* const deleted = await storage.deleteScript(req.params.id); res.status(204).send()
DeleteScriptDeleteScript ==
  \E slot \in DeleteSlots, raise \in Raises :
    /\ deletes[slot].pc = "deleteScript"
    /\ req' = Request("DELETE /api/scripts/:id", deletes[slot].user, deletes[slot].id, NoBody)
    /\ IF raise
       THEN res' = Caught(500) /\ UNCHANGED scripts
       ELSE /\ scripts' = deleteScript(deletes[slot].id)
            /\ res' = Status(204)
    /\ deletes' = [deletes EXCEPT ![slot] = IdleDelete]
    /\ UNCHANGED <<nextScriptId, news, nextNewsId, users, regs, openai, execs,
                   faults, GameVars, PageVars>>
    /\ Observe

\* ============================================================ game accounts (second revision)
\* const gameAccounts: GameAccount[] = []; gameSettings = { preferredClient: 'runelite' }
preferredClient == "runelite"

\* Number.prototype.toString: the decimal digits of n, as a sequence of characters
Digits == <<"0", "1", "2", "3", "4", "5", "6", "7", "8", "9">>
RECURSIVE toString(_)
toString(n) ==
  IF n < 10 THEN <<Digits[n + 1]>>
  ELSE toString(n \div 10) \o <<Digits[(n % 10) + 1]>>

\* The ids a request may name: what Date.now().toString() can have given, and
\* a string it never gives
AccountIdParams == {toString(t) : t \in 0..MaxClock} \cup {<<"0", "1">>}

\* body.f, the empty string standing for undefined as well
field(body, f) == IF f \in DOMAIN body THEN body[f] ELSE ""

GameAccountBodies ==
  { [name |-> "main", client |-> "runelite"],
    [name |-> "alt", client |-> "steam", id |-> <<"0", "1">>],
    [name |-> "main"],
    [name |-> "", client |-> "steam"],
    NoBody }
LaunchBodies ==
  { NoBody } \cup {[accountId |-> id] : id \in AccountIdParams}
             \cup {[accountId |-> <<"0">>, client |-> "steam"]}

\* Time passes: Date.now() is one millisecond later
Tick ==
  /\ clock < MaxClock
  /\ clock' = clock + 1
  /\ UNCHANGED <<scripts, nextScriptId, news, nextNewsId, users, regs, openai, execs,
                 faults, deletes, gameAccounts, PageVars, req, res>>
  /\ Observe

\* ------------------------------------------------------------ GET /api/game/accounts
GetGameAccounts ==
  /\ req' = Request("GET /api/game/accounts", Anon, NoId, NoBody)
  /\ res' = Response(200, gameAccounts, NoCode)
  /\ UNCHANGED <<scripts, nextScriptId, news, nextNewsId, users, regs, openai, execs, faults, deletes, GameVars, PageVars>>
  /\ Observe

\* ------------------------------------------------------------ POST /api/game/accounts
\* { id: Date.now().toString(), name, client }
newAccount(body) ==
  [id |-> toString(clock), name |-> body.name, client |-> body.client]

\* mutant: the account put at the head of the list
PostGameAccountsUnshift ==
  \E body \in GameAccountBodies :
    /\ req' = Request("POST /api/game/accounts", Anon, NoId, body)
    /\ IF field(body, "name") = "" \/ field(body, "client") = ""
       THEN res' = Status(400) /\ UNCHANGED gameAccounts
       ELSE /\ Len(gameAccounts) < MaxAccounts
            /\ gameAccounts' = <<newAccount(body)>> \o gameAccounts
            /\ res' = Response(200, <<newAccount(body)>>, NoCode)
    /\ UNCHANGED <<scripts, nextScriptId, news, nextNewsId, users, regs, openai, execs,
                   faults, deletes, clock, PageVars>>
    /\ Observe

PostGameAccounts ==
  \E body \in GameAccountBodies :
    /\ req' = Request("POST /api/game/accounts", Anon, NoId, body)
    /\ IF field(body, "name") = "" \/ field(body, "client") = ""
       THEN res' = Status(400) /\ UNCHANGED gameAccounts
       ELSE /\ Len(gameAccounts) < MaxAccounts
            /\ gameAccounts' = Append(gameAccounts, newAccount(body))
            /\ res' = Response(200, <<newAccount(body)>>, NoCode)
    /\ UNCHANGED <<scripts, nextScriptId, news, nextNewsId, users, regs, openai, execs,
                   faults, deletes, clock, PageVars>>
    /\ Observe

\* ------------------------------------------------------------ DELETE /api/game/accounts/:id
\* gameAccounts.findIndex(a => a.id === id): the first position (from 0), or -1
findIndex(list, id) ==
  IF \E i \in DOMAIN list : list[i].id = id
  THEN (CHOOSE i \in DOMAIN list :
          /\ list[i].id = id
          /\ \A j \in 1..(i - 1) : list[j].id # id) - 1
  ELSE -1

\* mutant: every account from the found one on removed (splice(index))
spliceToEnd(list, index) ==
  [i \in 1..index |-> list[i]]

\* list.splice(index, 1)
splice(list, index) ==
  [i \in 1..(Len(list) - 1) |-> IF i <= index THEN list[i] ELSE list[i + 1]]

DeleteGameAccount ==
  \E id \in AccountIdParams :
    /\ req' = Request("DELETE /api/game/accounts/:id", Anon, id, NoBody)
    /\ IF findIndex(gameAccounts, id) = -1
       THEN res' = Status(404) /\ UNCHANGED gameAccounts
       ELSE /\ gameAccounts' = splice(gameAccounts, findIndex(gameAccounts, id))
            /\ res' = Status(200)
    /\ UNCHANGED <<scripts, nextScriptId, news, nextNewsId, users, regs, openai, execs,
                   faults, deletes, clock, PageVars>>
    /\ Observe

\* ------------------------------------------------------------ POST /api/game/launch
\* launchDetails: { client: clientType, account: account?.name || 'None' }
launchDetails(body) ==
  LET accountId == field(body, "accountId")
      index     == IF accountId = "" THEN -1 ELSE findIndex(gameAccounts, accountId)
  IN [client  |-> IF field(body, "client") # "" THEN body.client ELSE preferredClient,
      account |-> IF index = -1 \/ gameAccounts[index + 1].name = "" THEN "None"
                  ELSE gameAccounts[index + 1].name]

PostGameLaunch ==
  \E body \in LaunchBodies :
    /\ req' = Request("POST /api/game/launch", Anon, NoId, body)
    /\ res' = Response(200, launchDetails(body), NoCode)
    /\ UNCHANGED <<scripts, nextScriptId, news, nextNewsId, users, regs, openai, execs, faults, deletes, GameVars, PageVars>>
    /\ Observe

\* ============================================================ launcher page
\* client/src/pages/game-launcher.tsx: the component's state and its callbacks.
ServerVars == <<scripts, nextScriptId, news, nextNewsId, users, regs, openai, execs,
                faults, deletes, GameVars, req, res>>

\* queryFn of ['/api/game/accounts']: the fetched list, or [] when the fetch fails
FetchAccounts ==
  /\ accounts' \in {gameAccounts, << >>}
  /\ accountsLoading' = FALSE
  /\ UNCHANGED <<isLaunching, gameStatus, launches, timers>>
  /\ UNCHANGED ServerVars
  /\ Observe

\* setIsLaunching(true); setGameStatus("launching"); launchMutation.mutate(...)
handleLaunch ==
  /\ isLaunching' = TRUE
  /\ gameStatus' = "launching"
  /\ launches' = launches + 1
  /\ UNCHANGED <<accounts, accountsLoading, timers>>

\* the main button: disabled={isLaunching || gameStatus === "running" || accountsLoading}
ClickLaunchGame ==
  /\ ~(isLaunching \/ gameStatus = "running" \/ accountsLoading)
  /\ handleLaunch
  /\ UNCHANGED ServerVars
  /\ Observe

\* an account card's button: disabled={isLaunching}
ClickLaunchWithAccount ==
  /\ accounts # << >>
  /\ ~isLaunching
  /\ handleLaunch
  /\ UNCHANGED ServerVars
  /\ Observe

\* the Stop Game button, rendered when gameStatus === "running"
ClickStopGame ==
  /\ gameStatus = "running"
  /\ gameStatus' = "offline"
  /\ UNCHANGED <<accounts, accountsLoading, isLaunching, launches, timers>>
  /\ UNCHANGED ServerVars
  /\ Observe

\* launchMutation.onSuccess: setGameStatus("running"); setTimeout(..., 2000)
LaunchOnSuccess ==
  /\ launches > 0
  /\ launches' = launches - 1
  /\ gameStatus' = "running"
  /\ timers' = timers + 1
  /\ UNCHANGED <<accounts, accountsLoading, isLaunching>>
  /\ UNCHANGED ServerVars
  /\ Observe

\* launchMutation.onError: setIsLaunching(false)
LaunchOnError ==
  /\ launches > 0
  /\ launches' = launches - 1
  /\ isLaunching' = FALSE
  /\ UNCHANGED <<accounts, accountsLoading, gameStatus, timers>>
  /\ UNCHANGED ServerVars
  /\ Observe

\* the callback of setTimeout: setIsLaunching(false)
LaunchTimeout ==
  /\ timers > 0
  /\ timers' = timers - 1
  /\ isLaunching' = FALSE
  /\ UNCHANGED <<accounts, accountsLoading, gameStatus, launches>>
  /\ UNCHANGED ServerVars
  /\ Observe

\* ------------------------------------------------------------ specifications
NoRequest == Request("none", Anon, NoId, NoBody)
NoResponse == Status(0)

InitStorage ==
  /\ scripts = << >>
  /\ nextScriptId = 1
  /\ news = << >>
  /\ nextNewsId = 1
  /\ users = << >>

\* const gameAccounts: GameAccount[] = []
InitGame ==
  /\ gameAccounts = << >>
  /\ clock = 0

\* useState(false), useState("offline"); the account query has no data yet
InitPage ==
  /\ accounts = << >>
  /\ accountsLoading = TRUE
  /\ isLaunching = FALSE
  /\ gameStatus = "offline"
  /\ launches = 0
  /\ timers = 0

InitRequests ==
  /\ regs = [slot \in Slots |-> IdleReg]
  /\ execs = [slot \in ExecSlots |-> IdleExec]
  /\ req = NoRequest
  /\ res = NoResponse
  /\ fav = NoFav
  /\ deletes = [slot \in DeleteSlots |-> IdleDelete]
  /\ InitGame
  /\ InitPage

Init ==
  /\ InitStorage
  /\ InitRequests
  /\ openai = FALSE
  /\ faults = FALSE
  /\ observe = FALSE

InitFavorite ==
  /\ InitStorage
  /\ InitRequests
  /\ openai = FALSE
  /\ faults = FALSE
  /\ observe = TRUE

\* The /api/scripts handlers of server/routes.ts
Next ==
  \/ GetScripts
  \/ GetScriptById
  \/ PostScripts
  \/ PatchScript
  \/ DeleteScript
  \/ ExecuteScript
  \/ FavoriteScript
  \/ GenerateScript

Spec == Init /\ [][Next]_vars

\* The by-id lookups of both revisions, with the handlers that make and remove
\* what they look up
NextLookup ==
  \/ PostScripts
  \/ DeleteScript
  \/ GetScriptById
  \/ PostNews
  \/ GetNewsById
  \/ GetNewsByIdVariant

SpecLookup == Init /\ [][NextLookup]_vars

\* The favorite handlers of both revisions among the other requests to a Script
NextFavorite ==
  \/ PostScripts
  \/ PatchScript
  \/ ExecuteScript
  \/ FavoriteScript
  \/ FavoriteScriptVariant

SpecFavorite == InitFavorite /\ [][NextFavorite]_vars

\* Registration requests, interleaved at their storage calls
NextRegister ==
  \/ RegisterParse
  \/ RegisterGetUserByEmail
  \/ RegisterGetUserByUsername
  \/ RegisterCreateUser

\* (the storage calls of a registration may raise or not)
InitRegister ==
  /\ InitStorage
  /\ InitRequests
  /\ openai = FALSE
  /\ faults \in BOOLEAN
  /\ observe = FALSE

SpecRegister == InitRegister /\ [][NextRegister]_vars

\* A storage that holds Scripts of two users and of the generator, and
\* possibly an article, from earlier requests
SeedScripts ==
  { Spread(ScriptDefaults, [userId |-> "u1", author |-> "ann", category |-> "utility",
                            code |-> <<"c1">>, isPublic |-> FALSE]),
    Spread(ScriptDefaults, [userId |-> "u2", author |-> "bob", category |-> "utility",
                            code |-> <<"c1">>]),
    Spread(ScriptDefaults, [author |-> "AI Generator", category |-> "fishing",
                            code |-> fishingTemplate("fish", "fishing")]) }

InitSeeded ==
  /\ scripts \in [ScriptIds -> SeedScripts]
  /\ nextScriptId = MaxScripts + 2
  /\ news \in {<< >>, [id \in {1} |-> [title |-> "t1", content |-> "x"]]}
  /\ nextNewsId = 2
  /\ users = << >>
  /\ InitRequests
  /\ openai = FALSE
  /\ faults = FALSE
  /\ observe = FALSE

\* The second revision has no route that creates a Script or an article: its
\* storage holds what was stored before.
InitVariant == InitSeeded

\* (its execute handler, which takes two steps, is in NextExecute)
NextVariant ==
  \/ FavoriteScriptVariant
  \/ DeleteScriptVariant
  \/ GetNewsByIdVariant

SpecVariant == InitVariant /\ [][NextVariant]_vars

\* The owner-guarded handlers of server/routes.ts and the two reads, on the
\* seeded storage
NextOwner ==
  \/ GetScripts
  \/ GetScriptById
  \/ PatchScript
  \/ DeleteScript

SpecOwner == InitSeeded /\ [][NextOwner]_vars

\* Execute requests of the second revision, interleaved at their storage calls
NextExecute ==
  \/ ExecuteScriptVariantGetScript
  \/ ExecuteScriptVariantUpdateScript

SpecExecute == InitSeeded /\ [][NextExecute]_vars

\* The generate handler with and without a configured text-generation client
InitGenerate ==
  /\ InitStorage
  /\ InitRequests
  /\ openai \in BOOLEAN
  /\ faults = FALSE
  /\ observe = FALSE

NextGenerate ==
  \/ GenerateScript
  \/ GetScriptById
  \/ GetScripts

SpecGenerate == InitGenerate /\ [][NextGenerate]_vars

\* The /api/news handlers of server/routes.ts
NextNews ==
  \/ PostNews
  \/ PatchNews
  \/ DeleteNews
  \/ GetNewsById

SpecNews == Init /\ [][NextNews]_vars

\* A deployment whose storage, service and platform calls may raise
InitFaults ==
  /\ InitStorage
  /\ InitRequests
  /\ openai \in BOOLEAN
  /\ faults = TRUE
  /\ observe = FALSE

NextFaults ==
  \/ PostScripts
  \/ PatchScript
  \/ DeleteScript
  \/ GenerateScript
  \/ PostNews
  \/ DeleteNews
  \/ GetSystemStatsHistory

SpecFaults == InitFaults /\ [][NextFaults]_vars

\* Concurrent DELETE requests of server/routes.ts on the seeded storage
NextDelete ==
  \/ DeleteScriptGetScript
  \/ DeleteScriptDeleteScript

SpecDelete == InitSeeded /\ [][NextDelete]_vars

\* The handlers that store Scripts without an owner, with PATCH and DELETE
NextOwnerless ==
  \/ GenerateScript
  \/ PostInitData
  \/ PatchScript
  \/ DeleteScript

SpecOwnerless == Init /\ [][NextOwnerless]_vars

\* The /api/game handlers of the second revision
NextGame ==
  \/ Tick
  \/ GetGameAccounts
  \/ PostGameAccounts
  \/ DeleteGameAccount
  \/ PostGameLaunch

SpecGame == Init /\ [][NextGame]_vars

\* The launcher page, with the server's account list behind it
NextPage ==
  \/ PostGameAccounts
  \/ FetchAccounts
  \/ ClickLaunchGame
  \/ ClickLaunchWithAccount
  \/ ClickStopGame
  \/ LaunchOnSuccess
  \/ LaunchOnError
  \/ LaunchTimeout

SpecPage == Init /\ [][NextPage]_vars

\* ============================================================ properties
StoreVars == <<scripts, nextScriptId, news, nextNewsId, users>>
PatchOps  == {"PATCH /api/scripts/:id"}
DeleteOps == {"DELETE /api/scripts/:id", "DELETE /api/scripts/:id (part_000)"}
GetNewsOps == {"GET /api/news/:id", "GET /api/news/:id (part_000)"}
GenerateOp == "POST /api/scripts/generate"
RegisterOp == "POST /api/auth/register"

\* C1: a PATCH or DELETE of an existing Script by an authenticated requester who
\* is not its owner is answered 403 and leaves the stored Script as it was.
C1_NonOwnerGets403 ==
  [][ ( /\ req'.op \in PatchOps \cup DeleteOps
        /\ isAuthenticated(req'.user)
        /\ hasScript(req'.id)
        /\ scripts[req'.id].userId # req'.user.id )
      => (res'.status = 403 /\ scripts' = scripts) ]_vars

\* C2: the Script created by a POST /api/scripts answered 201 carries the
\* session user's id as owner and the session user's name as author, whatever
\* userId and author the body holds.
C2_CreatedScriptOwnedBySession ==
  [][ (req'.op = "POST /api/scripts" /\ res'.status = 201)
      => \E id \in DOMAIN scripts' \ DOMAIN scripts :
            /\ res'.list = {id}
            /\ scripts'[id].userId = req'.user.id
            /\ scripts'[id].author = req'.user.username ]_vars

\* a Script was created from a body naming another user as owner
C2_Witness ==
  /\ req.op = "POST /api/scripts"
  /\ res.status = 201
  /\ "userId" \in DOMAIN req.body
  /\ req.body.userId # req.user.id
  /\ \E id \in res.list : hasScript(id) /\ scripts[id].userId = req.user.id

\* C3: a registration whose email or username was that of a stored user when it
\* arrived never reaches createUser, changes no stored user, and is answered 400.
C3_DuplicateRegistrationRejected ==
  [][ \A slot \in Slots :
        (regs[slot].pc # "idle" /\ regs[slot].dup /\ regs'[slot] # regs[slot])
        => /\ users' = users
           /\ regs'[slot].pc # "createUser"
           /\ regs'[slot].pc = "idle" => res'.status = 400 ]_vars

\* a well-formed registration with a fresh email and a taken username got 400
C3_Witness ==
  /\ req.op = RegisterOp
  /\ res.status = 400
  /\ insertUserSchemaValid(req.body)
  /\ getUserByEmail(req.body.email) = {}
  /\ getUserByUsername(req.body.username) # {}
  /\ Len(users) = 1

\* C4: no two stored users share an email, and no two share a username.
C4_UsersUnique ==
  \A i, j \in DOMAIN users :
    i # j => /\ users[i].email # users[j].email
             /\ users[i].username # users[j].username

\* C5: the list an unauthenticated GET /api/scripts returns holds no private Script.
C5_AnonymousListHasNoPrivateScript ==
  (req.op = "GET /api/scripts" /\ ~isAuthenticated(req.user))
  => \A id \in res.list : scripts[id].isPublic

\* C6: a GET by id of a Script or an article that is not stored is answered 404,
\* whoever asks, and changes nothing stored.
C6_AbsentIdGets404 ==
  [][ ( \/ req'.op = "GET /api/scripts/:id" /\ ~hasScript(req'.id)
        \/ req'.op \in GetNewsOps /\ ~hasNewsArticle(req'.id) )
      => (res'.status = 404 /\ UNCHANGED StoreVars) ]_vars

\* an authenticated requester asked for a Script that had been stored and deleted
C6_Witness ==
  /\ req.op = "GET /api/scripts/:id"
  /\ isAuthenticated(req.user)
  /\ ~hasScript(req.id)
  /\ req.id < nextScriptId
  /\ res.status = 404

\* C7: after two favorite requests on a Script answered 200, with no other
\* request to that Script between them, the Script is what it was before the first.
C7_FavoriteTwiceRestores ==
  fav.count = 2 => (hasScript(fav.id) /\ scripts[fav.id] = fav.base)

\* a Script that was a favorite has been toggled twice
C7_Witness ==
  /\ fav.count = 2
  /\ fav.base.isFavorite
  /\ hasScript(fav.id)
  /\ scripts[fav.id].isFavorite

\* C8: without a text-generation service, a generate request with a prompt gets
\* the fishing template (holding "Fishing Script") for key "fishing", the combat
\* template for key "combat", and the default template for any other or no key.
C8_TemplateSelectedByKey ==
  LET prompt   == IF "prompt" \in DOMAIN req.body THEN req.body.prompt ELSE ""
      template == IF "template" \in DOMAIN req.body THEN req.body.template ELSE NoTemplate
  IN (req.op = GenerateOp /\ ~openai /\ prompt # "")
     => /\ template = "fishing" => Contains(res.code, <<"Fishing", "Script">>)
        /\ template = "combat" => res.code = combatTemplate(prompt, template)
        /\ template \notin {"fishing", "combat"}
             => res.code = defaultTemplate(prompt, template)

\* C9: a stored Script is removed or changed only by a request of its owner,
\* and the owner's PATCH or DELETE is carried out.
C9_OnlyOwnerChangesScript ==
  [][ /\ \A id \in DOMAIN scripts :
           (id \notin DOMAIN scripts' \/ scripts'[id] # scripts[id])
           => req'.user.id = scripts[id].userId
      /\ ( /\ req'.op \in PatchOps \cup DeleteOps
           /\ isAuthenticated(req'.user)
           /\ hasScript(req'.id)
           /\ scripts[req'.id].userId = req'.user.id )
         => res'.status \in {200, 204} ]_vars

\* C10: POST /api/scripts is answered 401 to an unauthenticated requester and 400
\* to an authenticated one whose body violates the schema; neither creates a
\* Script nor changes anything stored.
C10_RejectedCreateChangesNothing ==
  [][ req'.op = "POST /api/scripts"
      => /\ ~isAuthenticated(req'.user)
              => (res'.status = 401 /\ UNCHANGED StoreVars)
         /\ (isAuthenticated(req'.user) /\ ~insertScriptSchemaValid(req'.body))
              => (res'.status = 400 /\ UNCHANGED StoreVars) ]_vars

\* an authenticated requester's malformed body was answered 400
C10_Witness ==
  /\ req.op = "POST /api/scripts"
  /\ isAuthenticated(req.user)
  /\ ~insertScriptSchemaValid(req.body)
  /\ res.status = 400

\* ------------------------------------------------------------ C11 .. C20
ExecuteOps == {"POST /api/scripts/:id/execute", "POST /api/scripts/:id/execute (part_000)"}
FavoriteOp == "POST /api/scripts/:id/favorite"
NewsMutationOps == {"POST /api/news", "PATCH /api/news/:id", "DELETE /api/news/:id"}
promptOf(body) == IF "prompt" \in DOMAIN body THEN body.prompt ELSE ""
isOwner(id, user) == scripts[id].userId = user.id

\* C11: PATCH /api/scripts/:id checks authentication, then existence, then
\* ownership: 401 without a session even for an absent Script, 404 for an absent
\* Script with a session, 403 for a Script of another user; none of the three
\* writes to storage, and a write is the owner's update.
C11_PatchGuardOrder ==
  [][ (req'.op \in PatchOps /\ ~res'.raised)
      => /\ ~isAuthenticated(req'.user)
              => (res'.status = 401 /\ UNCHANGED StoreVars)
         /\ (isAuthenticated(req'.user) /\ ~hasScript(req'.id))
              => (res'.status = 404 /\ UNCHANGED StoreVars)
         /\ (isAuthenticated(req'.user) /\ hasScript(req'.id) /\ ~isOwner(req'.id, req'.user))
              => (res'.status = 403 /\ UNCHANGED StoreVars)
         /\ scripts' # scripts
              => /\ isAuthenticated(req'.user)
                 /\ hasScript(req'.id)
                 /\ isOwner(req'.id, req'.user)
                 /\ res'.status = 200
                 /\ scripts' = updateScript(req'.id, req'.body) ]_vars

\* a PATCH without a session of a Script that is not stored was answered 401
C11_Witness ==
  /\ req.op \in PatchOps
  /\ ~isAuthenticated(req.user)
  /\ ~hasScript(req.id)
  /\ res.status = 401

\* C12: DELETE /api/scripts/:id runs the guards of PATCH (401, 404, 403, nothing
\* written); the owner's DELETE is answered 204, removes that Script and leaves
\* every other Script as it was; a GET by id of a Script that is not stored is
\* answered 404.
C12_OwnerDeleteRemovesScript ==
  [][ /\ (req'.op = "DELETE /api/scripts/:id" /\ ~res'.raised)
         => /\ ~isAuthenticated(req'.user)
                 => (res'.status = 401 /\ UNCHANGED StoreVars)
            /\ (isAuthenticated(req'.user) /\ ~hasScript(req'.id))
                 => (res'.status = 404 /\ UNCHANGED StoreVars)
            /\ (isAuthenticated(req'.user) /\ hasScript(req'.id)
                                           /\ ~isOwner(req'.id, req'.user))
                 => (res'.status = 403 /\ UNCHANGED StoreVars)
            /\ (isAuthenticated(req'.user) /\ hasScript(req'.id)
                                           /\ isOwner(req'.id, req'.user))
                 => /\ res'.status = 204
                    /\ DOMAIN scripts' = DOMAIN scripts \ {req'.id}
                    /\ \A other \in DOMAIN scripts' : scripts'[other] = scripts[other]
      /\ (req'.op = "GET /api/scripts/:id" /\ ~res'.raised /\ req'.id \notin DOMAIN scripts')
         => res'.status = 404 ]_vars

\* the owner's DELETE was answered 204, its Script is gone and another is stored
C12_Witness ==
  /\ req.op = "DELETE /api/scripts/:id"
  /\ res.status = 204
  /\ ~hasScript(req.id)
  /\ DOMAIN scripts # {}

\* C13: a request in whose handler a storage or service call raised is
\* answered 500.
C13_FailureAnswered500 ==
  res.raised => res.status = 500

\* a step in which an execute request is answered
ExecuteAnswered ==
  /\ req'.op \in ExecuteOps
  /\ \/ execs' = execs
     \/ \E slot \in ExecSlots : execs[slot].pc = "updateScript" /\ execs'[slot].pc = "idle"

\* C14: an execute request answered 200 names a stored Script, and the step
\* that answers it leaves that Script's execution counter one higher than it was.
C14_ExecuteCountsOnce ==
  [][ (ExecuteAnswered /\ res'.status = 200)
      => /\ hasScript(req'.id)
         /\ req'.id \in DOMAIN scripts'
         /\ scripts'[req'.id].executionCount = scripts[req'.id].executionCount + 1 ]_vars

\* C15: a registration answered with another status than 201 leaves the stored
\* users as they were.
C15_FailedRegistrationStoresNoUser ==
  [][ \A slot \in Slots :
        (regs[slot].pc # "idle" /\ regs'[slot].pc = "idle" /\ res'.status # 201)
        => users' = users ]_vars

\* C16: POST /api/scripts/:id/favorite of server/routes.ts is answered 401
\* without a session and 404 for an absent Script, both leaving the Scripts as
\* they were; with a session it flips the flag of any stored Script, the
\* requester's own or not, and is answered 200.
C16_FavoriteHasNoOwnershipGate ==
  [][ (req'.op = FavoriteOp /\ ~res'.raised)
      => /\ ~isAuthenticated(req'.user)
              => (res'.status = 401 /\ scripts' = scripts)
         /\ (isAuthenticated(req'.user) /\ ~hasScript(req'.id))
              => (res'.status = 404 /\ scripts' = scripts)
         /\ (isAuthenticated(req'.user) /\ hasScript(req'.id))
              => /\ res'.status = 200
                 /\ scripts' = [scripts EXCEPT ![req'.id].isFavorite =
                                                  ~scripts[req'.id].isFavorite] ]_vars

\* a user made a favorite of another user's Script
C16_Witness ==
  /\ req.op = FavoriteOp
  /\ res.status = 200
  /\ hasScript(req.id)
  /\ scripts[req.id].userId \in UserIds \ {req.user.id}
  /\ scripts[req.id].isFavorite

\* C17: POST, PATCH and DELETE on /api/news are never answered 401 or 403,
\* whoever asks; PATCH and DELETE are answered 404 exactly when no article has
\* the id, and DELETE of a stored article is answered 204 and removes it.
C17_NewsMutationsUnguarded ==
  [][ req'.op \in NewsMutationOps
      => /\ res'.status \notin {401, 403}
         /\ (~res'.raised /\ req'.op # "POST /api/news")
              => (res'.status = 404 <=> ~hasNewsArticle(req'.id))
         /\ (~res'.raised /\ req'.op = "DELETE /api/news/:id" /\ hasNewsArticle(req'.id))
              => (res'.status = 204 /\ req'.id \notin DOMAIN news') ]_vars

\* a requester without a session deleted an article
C17_Witness ==
  /\ req.op = "DELETE /api/news/:id"
  /\ ~isAuthenticated(req.user)
  /\ res.status = 204
  /\ ~hasNewsArticle(req.id)

C20_EmptyPromptRejected ==
  [][ (req'.op = GenerateOp /\ promptOf(req'.body) = "")
      => (res'.status = 400 /\ ~res'.called /\ UNCHANGED StoreVars) ]_vars

\* with a configured client, a request with an empty prompt was answered 400
C20_Witness ==
  /\ openai
  /\ req.op = GenerateOp
  /\ "prompt" \in DOMAIN req.body
  /\ req.body.prompt = ""
  /\ res.status = 400


\* ------------------------------------------------------------ game accounts
\* A step in which a /api/game handler answers `op`: every step of these
\* handlers leaves the clock alone, and a step of the clock answers nothing.
GameAnswered(op) == req'.op = op /\ clock' = clock

hasValue(body, f) == f \in DOMAIN body /\ body[f] # ""
removeAt(list, i) == SubSeq(list, 1, i - 1) \o SubSeq(list, i + 1, Len(list))

\* C21: POST /api/game/accounts with a name and a client appends exactly one
\* account with those values at the end of the list and leaves the accounts
\* before it as they were; without a name or a client it answers 400 and leaves
\* the list unchanged; GET /api/game/accounts returns the list as it stands, in
\* its order, and leaves it unchanged.
C21_AccountsAppendedAndListed ==
  [][ /\ GameAnswered("POST /api/game/accounts") =>
           IF hasValue(req'.body, "name") /\ hasValue(req'.body, "client")
           THEN /\ res'.status = 200
                /\ Len(gameAccounts') = Len(gameAccounts) + 1
                /\ SubSeq(gameAccounts', 1, Len(gameAccounts)) = gameAccounts
                /\ gameAccounts'[Len(gameAccounts')].name = req'.body.name
                /\ gameAccounts'[Len(gameAccounts')].client = req'.body.client
           ELSE res'.status = 400 /\ gameAccounts' = gameAccounts
      /\ GameAnswered("GET /api/game/accounts") =>
           /\ res'.status = 200
           /\ res'.list = gameAccounts
           /\ gameAccounts' = gameAccounts
    ]_vars

\* A second account has been added behind the first one.
C21_Witness ==
  /\ req.op = "POST /api/game/accounts"
  /\ res.status = 200
  /\ Len(gameAccounts) = 2
  /\ gameAccounts[1].name = "main"
  /\ gameAccounts[2].name = "alt" /\ gameAccounts[2].client = "steam"

\* C22: DELETE /api/game/accounts/:id removes one account carrying that id and
\* no other, the remaining accounts keeping their order; when no account carries
\* the id it answers 404 and leaves the list unchanged. POST /api/game/launch
\* answers 200 and never changes the list, whether or not its accountId names
\* an account.
C22_DeleteRemovesOneLaunchNone ==
  [][ /\ GameAnswered("DELETE /api/game/accounts/:id") =>
           IF \E i \in DOMAIN gameAccounts : gameAccounts[i].id = req'.id
           THEN /\ res'.status = 200
                /\ \E i \in DOMAIN gameAccounts :
                     /\ gameAccounts[i].id = req'.id
                     /\ gameAccounts' = removeAt(gameAccounts, i)
           ELSE res'.status = 404 /\ gameAccounts' = gameAccounts
      /\ GameAnswered("POST /api/game/launch") =>
           /\ res'.status = 200
           /\ gameAccounts' = gameAccounts
    ]_vars

\* An account has been deleted from a list of three; the two that remain were
\* added at different times.
C22_Witness ==
  /\ req.op = "DELETE /api/game/accounts/:id"
  /\ res.status = 200
  /\ Len(gameAccounts) = 2
  /\ gameAccounts[1].id # gameAccounts[2].id
  /\ \A i \in DOMAIN gameAccounts : gameAccounts[i].id # req.id

\* C26: the ids of the game accounts in the list are pairwise distinct.
C26_AccountIdsDistinct ==
  \A i, j \in DOMAIN gameAccounts :
    i # j => gameAccounts[i].id # gameAccounts[j].id


\* ------------------------------------------------------------ owner reference
\* C23: the owner reference of a stored Script never changes: in every step,
\* every Script that is stored before and after the step has the userId it had.
C23_OwnerReferenceFixed ==
  [][ \A id \in DOMAIN scripts \cap DOMAIN scripts' :
        scripts'[id].userId = scripts[id].userId ]_vars


\* C24: a PATCH or DELETE of /api/scripts/:id that names a stored Script without
\* an owner is answered 401 or 403 (a failing storage call aside) and leaves the
\* storage as it was.
C24_OwnerlessScriptNeverModified ==
  [][ ( /\ req'.op \in {"PATCH /api/scripts/:id", "DELETE /api/scripts/:id"}
        /\ hasScript(req'.id)
        /\ scripts[req'.id].userId = NoUser
        /\ ~res'.raised )
      => /\ res'.status \in {401, 403}
         /\ UNCHANGED StoreVars ]_vars

\* A session user's PATCH of a Script stored by POST /api/init-data was refused.
C24_Witness ==
  /\ req.op = "PATCH /api/scripts/:id"
  /\ isAuthenticated(req.user)
  /\ res.status = 403
  /\ hasScript(req.id)
  /\ scripts[req.id].userId = NoUser
  /\ scripts[req.id].author = "WoodMaster"


\* ------------------------------------------------------------ concurrent deletes
\* A step in which DELETE /api/scripts/:id of server/routes.ts answers: at once
\* from its guards, or when the request in a slot has made its storage call.
DeleteAnswered ==
  /\ req'.op = "DELETE /api/scripts/:id"
  /\ \/ deletes' = deletes
     \/ \E slot \in DeleteSlots :
          deletes[slot].pc = "deleteScript" /\ deletes'[slot].pc = "idle"

\* C25: a DELETE /api/scripts/:id request is answered 204 only in a step whose
\* storage deletion removed the Script: the Script was stored before the step
\* and is not stored after it (so of several concurrent requests for one Script
\* at most one is answered 204).
C25_OnlyTheRemovingDeleteGets204 ==
  [][ (DeleteAnswered /\ res'.status = 204)
      => (hasScript(req'.id) /\ req'.id \notin DOMAIN scripts') ]_vars


\* ------------------------------------------------------------ launcher page
\* The steps in which a launch request is sent, fails and succeeds
LaunchStarted   == launches' = launches + 1
LaunchFailed    == launches' = launches - 1 /\ timers' = timers
LaunchSucceeded == launches' = launches - 1 /\ timers' = timers + 1

\* C27: on the launcher page gameStatus is "launching" only while isLaunching is
\* true; the step in which a launch fails leaves gameStatus "offline", and the
\* step in which a launch succeeds leaves it "running".
C27_LaunchingOnlyWhileIsLaunching ==
  [][ /\ gameStatus' = "launching" => isLaunching'
      /\ LaunchFailed => gameStatus' = "offline"
      /\ LaunchSucceeded => gameStatus' = "running" ]_vars

\* C28: on the launcher page a launch request is sent only when gameStatus is
\* not "running" and isLaunching is false, and at most one launch request is in
\* flight.
C28_NoLaunchWhileRunningOrLaunching ==
  [][ /\ LaunchStarted => (gameStatus # "running" /\ ~isLaunching)
      /\ launches' <= 1 ]_vars

====
